---- MODULE Spec2Model ----
(***************************************************************************)
(* Model of the conversational issue-drafting backend of github-dashboard: *)
(* the readiness detector (services/ai_service.py llm_detect_readiness),   *)
(* the chat handler (api/handlers/chat_handler.py) and one turn of         *)
(* chat_issue_creation with its draft merge, preview fallback and          *)
(* follow-up call.  Texts are TLA+ strings handled character by character; *)
(* JSON values are tagged records; every answer of the language model is   *)
(* an input chosen from a small set, or a raised exception.                *)
(***************************************************************************)
EXTENDS Integers, Sequences, FiniteSets, TLC

VARIABLES
    pc,              \* position inside the current chat request
    request_data,    \* the JSON body handed to handle_chat_issue
    user_message,    \* chat_issue_creation's user_message argument
    is_ready,        \* result of llm_detect_readiness in this turn
    response,        \* result of _call_openai_chat_with_tools
    preview_data,    \* the working draft of this turn
    message_content, \* the chat text being built
    result,          \* what the handler returned (or the exception raised)
    calls,           \* collaborator calls made in this turn, in order
    turns,           \* length of the current chain of chat turns
    last_preview,    \* preview returned by the previous turn when it was Continue
    held,            \* keys seen non-empty in a returned preview of the current chain
    det_text,        \* llm_detect_readiness called on its own: the text
    det_outcome,     \* ... what the model call would do
    det_result,      \* ... what the function returned
    cache_file,      \* the summary cache file: issue id -> cached response
    summ,            \* the activations of handle_summarize, by handler slot
    first,           \* issue id -> response of the first request completed for it
    served,          \* summarize requests taken up so far
    iss,              \* the activation of handle_create_issue_with_project
    srv,              \* the request being answered by GitHubAssistantHandler
    pri,              \* the call of prioritize_issues and what it returned
    san              \* sanitize_chat_message applied once and twice

vars == <<pc, request_data, user_message, is_ready, response, preview_data,
          message_content, result, calls, turns, last_preview, held,
          det_text, det_outcome, det_result,
          cache_file, summ, first, served,
          iss,
          srv,
          pri,
          san>>

chatVars == <<pc, request_data, user_message, is_ready, response, preview_data,
              message_content, result, calls, turns, last_preview, held>>

detVars == <<det_text, det_outcome, det_result>>

sumVars == <<cache_file, summ, first, served>>

issVars == <<iss>>

srvVars == <<srv>>

priVars == <<pri>>

sanVars == <<san>>

\* what a step of one part of the program leaves alone
nonChatVars == <<detVars, sumVars, issVars, srvVars, priVars, sanVars>>
nonDetVars == <<chatVars, sumVars, issVars, srvVars, priVars, sanVars>>
nonSumVars == <<chatVars, detVars, issVars, srvVars, priVars, sanVars>>
nonIssVars == <<chatVars, detVars, sumVars, srvVars, priVars, sanVars>>
nonSrvVars == <<chatVars, detVars, sumVars, issVars, priVars, sanVars>>
nonPriVars == <<chatVars, detVars, sumVars, issVars, srvVars, sanVars>>
nonSanVars == <<chatVars, detVars, sumVars, issVars, srvVars, priVars>>

(***************************************************************************)
(* Bounds                                                                  *)
(***************************************************************************)
MaxTurns == 2
MaxRequests == 3
MaxIssues == 3
MAX_ISSUES_TO_PRIORITIZE == 2

(***************************************************************************)
(* Python string primitives                                                *)
(***************************************************************************)
Whitespace == {" ", "\n", "\t", "\r"}

LowerChar(c) ==
    CASE c = "A" -> "a" [] c = "B" -> "b" [] c = "C" -> "c" [] c = "D" -> "d"
      [] c = "E" -> "e" [] c = "F" -> "f" [] c = "G" -> "g" [] c = "H" -> "h"
      [] c = "I" -> "i" [] c = "J" -> "j" [] c = "K" -> "k" [] c = "L" -> "l"
      [] c = "M" -> "m" [] c = "N" -> "n" [] c = "O" -> "o" [] c = "P" -> "p"
      [] c = "Q" -> "q" [] c = "R" -> "r" [] c = "S" -> "s" [] c = "T" -> "t"
      [] c = "U" -> "u" [] c = "V" -> "v" [] c = "W" -> "w" [] c = "X" -> "x"
      [] c = "Y" -> "y" [] c = "Z" -> "z" [] OTHER -> c

MinOf(S) == CHOOSE i \in S : \A j \in S : i <= j
MaxOf(S) == CHOOSE i \in S : \A j \in S : i >= j

CharAt(s, p) == SubSeq(s, p, p)

RECURSIVE lower(_)
lower(s) ==
    IF Len(s) = 0 THEN ""
    ELSE IF Len(s) = 1 THEN LowerChar(s)
    ELSE lower(SubSeq(s, 1, Len(s) \div 2))
         \o lower(SubSeq(s, Len(s) \div 2 + 1, Len(s)))

strip(s) ==
    LET inked == {i \in 1..Len(s) : CharAt(s, i) \notin Whitespace}
    IN  IF inked = {} THEN "" ELSE SubSeq(s, MinOf(inked), MaxOf(inked))

\* Python's  sub in s
Contains(s, sub) ==
    \E i \in 1..(Len(s) - Len(sub) + 1) : SubSeq(s, i, i + Len(sub) - 1) = sub

startswith(s, prefix) ==
    Len(s) >= Len(prefix) /\ SubSeq(s, 1, Len(prefix)) = prefix

(***************************************************************************)
(* Outcome of a plain model call (_call_openai_chat): it either raises or  *)
(* returns the text of the first choice.                                   *)
(***************************************************************************)
Raised == [ok |-> FALSE, content |-> ""]
Returned(text) == [ok |-> TRUE, content |-> text]

(***************************************************************************)
(* Readiness detector                                                      *)
(***************************************************************************)
ready_keywords ==
    << "create the ticket", "make the ticket", "create the issue",
       "make the issue", "generate the ticket", "generate the issue",
       "i'm ready", "im ready", "ready to create", "looks good",
       "that's enough", "thats enough", "good enough", "let's create",
       "lets create" >>

fail_open_phrases == <<"ready", "create", "make">>

KeywordMatch(text) ==
    \E i \in 1..Len(ready_keywords) : Contains(lower(text), ready_keywords[i])

\* The value llm_detect_readiness returns, and whether it called the model.
\* outcome is what _call_openai_chat does if it is reached.
\* llm_detect_readiness without its keyword fast path
llm_detect_readinessNoFastPath(text, outcome) ==
    IF text = "" \/ strip(text) = "" THEN [is_ready |-> FALSE, called |-> FALSE]
    ELSE IF outcome.ok
         THEN [is_ready |-> startswith(lower(strip(outcome.content)), "yes"),
               called   |-> TRUE]
         ELSE [is_ready |-> \E i \in 1..Len(fail_open_phrases) :
                                Contains(lower(text), fail_open_phrases[i]),
               called   |-> TRUE]

\* llm_detect_readiness comparing the answer without trimming and
\* lower-casing it, and failing closed
llm_detect_readinessRawAnswer(text, outcome) ==
    IF text = "" \/ strip(text) = "" THEN [is_ready |-> FALSE, called |-> FALSE]
    ELSE IF KeywordMatch(text) THEN [is_ready |-> TRUE, called |-> FALSE]
    ELSE IF outcome.ok
         THEN [is_ready |-> startswith(outcome.content, "yes"),
               called   |-> TRUE]
         ELSE [is_ready |-> FALSE, called |-> TRUE]

llm_detect_readiness(text, outcome) ==
    IF text = "" \/ strip(text) = "" THEN [is_ready |-> FALSE, called |-> FALSE]
    ELSE IF KeywordMatch(text) THEN [is_ready |-> TRUE, called |-> FALSE]
    ELSE IF outcome.ok
         THEN [is_ready |-> startswith(lower(strip(outcome.content)), "yes"),
               called   |-> TRUE]
         ELSE [is_ready |-> \E i \in 1..Len(fail_open_phrases) :
                                Contains(lower(text), fail_open_phrases[i]),
               called   |-> TRUE]

(***************************************************************************)
(* JSON / Python values of a draft.  A value is a string, a list of        *)
(* strings or None; Truthy is Python's truth value of it.                  *)
(***************************************************************************)
PyStr(s)   == [kind |-> "str",  str |-> s,  items |-> <<>>]
PyList(xs) == [kind |-> "list", str |-> "", items |-> xs]
PyNone     == [kind |-> "null", str |-> "", items |-> <<>>]

Truthy(v) ==
    CASE v.kind = "str"  -> v.str # ""
      [] v.kind = "list" -> v.items # <<>>
      [] OTHER           -> FALSE

\* A mapping (Python dict) is a function from its keys to values.
EmptyDict == [k \in {} |-> PyNone]

Put(d, key, value) ==
    [k \in (DOMAIN d) \cup {key} |-> IF k = key THEN value ELSE d[k]]

\* d.get(key) is truthy
GetTruthy(d, key) == key \in DOMAIN d /\ Truthy(d[key])

\* Optional[Dict]: None or a mapping
NoDict      == [none |-> TRUE,  map |-> EmptyDict]
SomeDict(d) == [none |-> FALSE, map |-> d]

(***************************************************************************)
(* Draft merge: the body of the loop over args.items() in the              *)
(* update_preview branch of chat_issue_creation.                           *)
(***************************************************************************)
update_keyOverwrite(preview, key, value) == Put(preview, key, value)

\* A falsy value never stored, not even for a key the draft lacks
update_keyDropFalsy(preview, key, value) ==
    IF Truthy(value) THEN Put(preview, key, value) ELSE preview

update_key(preview, key, value) ==
    IF Truthy(value) \/ (value = PyList(<<>>) /\ key \notin DOMAIN preview)
    THEN Put(preview, key, value)
    ELSE IF key \notin DOMAIN preview
         THEN Put(preview, key, value)
         ELSE preview

RECURSIVE merge_items(_, _, _)
merge_items(preview, args, keys) ==
    IF keys = {} THEN preview
    ELSE LET key == CHOOSE k \in keys : TRUE
         IN  merge_items(update_key(preview, key, args[key]), args, keys \ {key})

merge(preview, args) == merge_items(preview, args, DOMAIN args)

(***************************************************************************)
(* Tool invocations returned by the model.  arguments is a JSON text:      *)
(* json.loads either raises on it ("malformed"), or yields an object or    *)
(* some other JSON value ("array").                                        *)
(***************************************************************************)
ObjectArgs(d) == [json |-> "object",    obj |-> d]
MalformedArgs == [json |-> "malformed", obj |-> EmptyDict]
ArrayArgs     == [json |-> "array",     obj |-> EmptyDict]

ToolCall(name, arguments) == [name |-> name, arguments |-> arguments]

\* The for-loop over response["tool_calls"] (TOOL HANDLING): it returns
\* Ready at the first signal_issue_ready, raises when json.loads or
\* args.items() raises, and otherwise falls through with the merged preview.
RECURSIVE tool_handling(_, _)
tool_handling(tool_calls, preview) ==
    IF tool_calls = <<>> THEN [kind |-> "fallthrough", preview |-> preview]
    ELSE LET func == Head(tool_calls).name
             args == Head(tool_calls).arguments
         IN  IF args.json = "malformed"
             THEN [kind |-> "raise", exc |-> "JSONDecodeError"]
             ELSE IF func = "signal_issue_ready"
             THEN [kind |-> "return", issue_data |-> args]
             ELSE IF func = "update_preview"
             THEN IF args.json # "object"
                  THEN [kind |-> "raise", exc |-> "AttributeError"]
                  ELSE tool_handling(Tail(tool_calls), merge(preview, args.obj))
             ELSE tool_handling(Tail(tool_calls), preview)

\* The draft substituted when extraction yields nothing.
empty_shaped_draft ==
    [title |-> PyStr(""), body |-> PyStr(""), issue_type |-> PyNone,
     labels |-> PyList(<<>>), priority |-> PyNone]

\* extract_issue_details_from_conversation: the model's JSON answer is a
\* dict (filtered of None, "" and []), or something else, or the call raises.
FilterExtracted(d) ==
    LET keep == {k \in DOMAIN d :
                    d[k] # PyNone /\ d[k] # PyStr("") /\ d[k] # PyList(<<>>)}
    IN  [k \in keep |-> d[k]]

extract_issue_details_from_conversation(outcome) ==
    IF outcome.kind = "dict" THEN SomeDict(FilterExtracted(outcome.dict))
    ELSE NoDict

\* tool_choice of _call_openai_chat_with_tools
tool_choice_paramSwapped(ready) ==
    IF ready THEN "update_preview" ELSE "signal_issue_ready"

tool_choice_param(ready) ==
    IF ready THEN "signal_issue_ready" ELSE "update_preview"

get_conversational_fallback(preview) ==
    IF DOMAIN preview # {} /\ GetTruthy(preview, "title")
    THEN "I've updated the preview with your issue details. How does it look?"
    ELSE "Let me know what else you'd like to add to the issue."

(***************************************************************************)
(* Regular expressions as Python's re applies them: a pattern is a tree,   *)
(* and Ends lists the offsets at which a match started at offset p can     *)
(* end, in the order the backtracking matcher tries them; re.sub takes     *)
(* the first.  The bullet class [-*\u2022] is modelled on its ASCII        *)
(* members.                                                                *)
(***************************************************************************)
Ch(c)      == [op |-> "set", neg |-> FALSE, chars |-> {c}]
OneOf(cs)  == [op |-> "set", neg |-> FALSE, chars |-> cs]
NoneOf(cs) == [op |-> "set", neg |-> TRUE,  chars |-> cs]
LitI(str)  == [op |-> "lit", ci |-> TRUE,  str |-> str]
Lit(str)   == [op |-> "lit", ci |-> FALSE, str |-> str]
SeqOf(xs)  == [op |-> "seq", xs |-> xs]
AltOf(xs)  == [op |-> "alt", xs |-> xs]
Rep(node, min, max) == [op |-> "rep", x |-> node, min |-> min, max |-> max]
Star(node) == Rep(node, 0, -1)
Plus(node) == Rep(node, 1, -1)
Bol(multiline) == [op |-> "bol", multiline |-> multiline]
Eol        == [op |-> "eol"]
Space      == OneOf(Whitespace)
NotNewline == NoneOf({"\n"})

RangeOf(ps) == {ps[i] : i \in DOMAIN ps}

\* ps followed by the positions of qs not yet in ps
Merge(ps, qs) == ps \o SelectSeq(qs, LAMBDA e : e \notin RangeOf(ps))

InSet(node, s, i) == (CharAt(s, i) \in node.chars) # node.neg

\* greedy repetition of a character class: the longest run first
EndsRun(node, s, p) ==
    LET stops == {j \in 1..(Len(s) - p) : ~InSet(node.x, s, p + j)}
        run   == IF stops = {} THEN Len(s) - p ELSE MinOf(stops) - 1
        most  == IF node.max # -1 /\ run > node.max THEN node.max ELSE run
    IN  IF most < node.min THEN <<>>
        ELSE [i \in 1..(most - node.min + 1) |-> p + most - i + 1]

RECURSIVE Ends(_, _, _)
RECURSIVE EndsAll(_, _, _)
RECURSIVE EndsSeq(_, _, _, _)
RECURSIVE EndsAlt(_, _, _, _)
RECURSIVE EndsRep(_, _, _, _)
RECURSIVE EndsRepAll(_, _, _, _)

\* the offsets node can end at when started at offset p of s, in the
\* order a backtracking matcher tries them
Ends(node, s, p) ==
    CASE node.op = "set" ->
            IF p < Len(s) /\ InSet(node, s, p + 1) THEN <<p + 1>> ELSE <<>>
      [] node.op = "lit" ->
            IF p + Len(node.str) <= Len(s)
               /\ LET part == SubSeq(s, p + 1, p + Len(node.str))
                  IN  (IF node.ci THEN lower(part) ELSE part) = node.str
            THEN <<p + Len(node.str)>> ELSE <<>>
      [] node.op = "seq" -> EndsSeq(node.xs, 1, s, <<p>>)
      [] node.op = "alt" -> EndsAlt(node.xs, 1, s, p)
      [] node.op = "rep" ->
            IF node.x.op = "set" THEN EndsRun(node, s, p)
            ELSE EndsRep(node, s, p, 0)
      [] node.op = "bol" ->
            IF p = 0 \/ (node.multiline /\ CharAt(s, p) = "\n")
            THEN <<p>> ELSE <<>>
      [] node.op = "eol" ->
            IF p = Len(s) \/ (p = Len(s) - 1 /\ CharAt(s, Len(s)) = "\n")
            THEN <<p>> ELSE <<>>

EndsAll(node, s, ps) ==
    IF ps = <<>> THEN <<>>
    ELSE IF Len(ps) = 1 THEN Ends(node, s, ps[1])
    ELSE Merge(EndsAll(node, s, SubSeq(ps, 1, Len(ps) \div 2)),
               EndsAll(node, s, SubSeq(ps, Len(ps) \div 2 + 1, Len(ps))))

EndsSeq(xs, i, s, ps) ==
    IF i > Len(xs) \/ ps = <<>> THEN ps
    ELSE EndsSeq(xs, i + 1, s, EndsAll(xs[i], s, ps))

EndsAlt(xs, i, s, p) ==
    IF i > Len(xs) THEN <<>>
    ELSE Merge(Ends(xs[i], s, p), EndsAlt(xs, i + 1, s, p))

EndsRep(node, s, p, n) ==
    LET once == IF node.max # -1 /\ n >= node.max THEN <<>>
                ELSE SelectSeq(Ends(node.x, s, p), LAMBDA e : e # p)
        more == EndsRepAll(node, s, once, n + 1)
    IN  IF n >= node.min THEN Merge(more, <<p>>) ELSE more

EndsRepAll(node, s, ps, n) ==
    IF ps = <<>> THEN <<>>
    ELSE IF Len(ps) = 1 THEN EndsRep(node, s, ps[1], n)
    ELSE Merge(EndsRepAll(node, s, SubSeq(ps, 1, Len(ps) \div 2), n),
               EndsRepAll(node, s, SubSeq(ps, Len(ps) \div 2 + 1, Len(ps)), n))

\* re.sub(pattern, repl, s): the matches are taken left to right, each
\* search starting where the previous match ended
RECURSIVE SubFrom(_, _, _, _, _)
SubFrom(pattern, repl, s, starts, from) ==
    LET ahead == {p \in starts : p >= from} IN
    IF ahead = {} THEN SubSeq(s, from + 1, Len(s))
    ELSE LET p == MinOf(ahead)
             e == Ends(pattern, s, p)[1]
         IN  SubSeq(s, from + 1, p) \o repl \o
             (IF e > p THEN SubFrom(pattern, repl, s, starts, e)
              ELSE IF p = Len(s) THEN ""
              ELSE CharAt(s, p + 1) \o SubFrom(pattern, repl, s, starts, p + 1))

re_sub(pattern, repl, s) ==
    SubFrom(pattern, repl, s,
            {p \in 0..Len(s) : Ends(pattern, s, p) # <<>>}, 0)

FieldValue(name) ==
    SeqOf(<<name, Star(Space), Ch(":"), Star(Space), Plus(NotNewline)>>)

structured_fields ==
    << SeqOf(<<LitI("issue"), Plus(Space), LitI("type"), Star(Space), Ch(":"),
               Star(Space), Plus(NotNewline)>>),
       FieldValue(LitI("title")),
       FieldValue(LitI("description")),
       SeqOf(<<LitI("requirements"), Star(Space), Ch(":"), Star(Space)>>),
       FieldValue(LitI("priority")),
       FieldValue(LitI("labels")) >>

BulletLine ==
    SeqOf(<<Star(Space), OneOf({"-", "*"}), Plus(Space), Plus(NotNewline)>>)

bullet_section ==
    SeqOf(<<AltOf(<<Bol(TRUE), Ch("\n")>>), BulletLine,
            Rep(SeqOf(<<Ch("\n"), BulletLine>>), 2, -1)>>)

standalone_title(title) ==
    SeqOf(<<AltOf(<<Bol(FALSE), Ch("\n")>>), Star(Space), Lit(title),
            Star(Space), AltOf(<<Ch("\n"), Eol>>)>>)

field_heading ==
    SeqOf(<<Rep(Ch("#"), 1, 3), Star(Space),
            AltOf(<<LitI("issue type"), LitI("title"), LitI("description"),
                    LitI("requirements"), LitI("priority")>>),
            Star(Space), Ch("\n")>>)

blank_lines ==
    SeqOf(<<Ch("\n"), Star(Space), Ch("\n"), Star(Space), Plus(Ch("\n"))>>)

RECURSIVE SubAll(_, _, _)
SubAll(patterns, i, s) ==
    IF i > Len(patterns) THEN s
    ELSE SubAll(patterns, i + 1, re_sub(patterns[i], "", s))

Find(s, sub, from) ==
    LET hits == {i \in from..(Len(s) - Len(sub) + 1) :
                    SubSeq(s, i, i + Len(sub) - 1) = sub}
    IN  IF hits = {} THEN 0 ELSE MinOf(hits)

\* message.split(sep)[-1]
RECURSIVE LastPart(_, _)
LastPart(s, sep) ==
    LET i == Find(s, sep, 1) IN
    IF i = 0 THEN s ELSE LastPart(SubSeq(s, i + Len(sep), Len(s)), sep)

Below20PercentInclusive(len, original) == 5 * len <= original

\* len < original * 0.2: the double product is exact enough at these
\* lengths for the comparison to agree with the integer one
Below20Percent(len, original) == 5 * len < original

Prefix(s, n) == IF Len(s) <= n THEN s ELSE SubSeq(s, 1, n)

\* the message after the removals, the blank-line collapse and the strip
cleaned_message(message, preview) ==
    LET title == IF GetTruthy(preview, "title") THEN preview["title"].str ELSE ""
        body  == IF GetTruthy(preview, "body") THEN preview["body"].str ELSE ""
        m1 == SubAll(structured_fields, 1, message)
        m2 == re_sub(bullet_section, "", m1)
        m3 == IF title # "" THEN re_sub(standalone_title(title), "\n", m2)
              ELSE m2
        m4 == IF body # "" /\ Find(m3, Prefix(body, 200), 1) # 0
              THEN LastPart(m3, Prefix(body, 200)) ELSE m3
        m5 == re_sub(field_heading, "", m4)
    IN  strip(re_sub(blank_lines, "\n\n", m5))

\* sanitize_chat_message: none stands for Python's None
sanitize_chat_message(message, preview) ==
    LET cleaned == cleaned_message(message, preview)
    IN  IF message = "" \/ strip(message) = ""
        THEN [none |-> FALSE, text |-> message]
        ELSE IF Below20Percent(Len(cleaned), Len(message)) /\ Len(message) > 50
        THEN [none |-> TRUE, text |-> ""]
        ELSE [none |-> FALSE, text |-> cleaned]


(***************************************************************************)
(* Inputs of the chat turn                                                 *)
(***************************************************************************)
RequestMessages == {"", "  ", "looks good", " hi ", "make it"}

\* Partial drafts a model may send as update_preview arguments
PartialDrafts ==
    {EmptyDict,
     [title |-> PyStr("")],
     [title |-> PyNone],
     [title |-> PyStr("Crash")],
     [labels |-> PyList(<<>>)],
     [title |-> PyStr(""), labels |-> PyList(<<"bug">>)],
     [title |-> PyStr("Crash"), labels |-> PyList(<<>>)]}

full_issue ==
    [issue_type |-> PyStr("bug"), title |-> PyStr("Crash"),
     body |-> PyStr("It crashes."), labels |-> PyList(<<"bug">>)]

FreshPreviews ==
    {NoDict, SomeDict(EmptyDict),
     SomeDict([title |-> PyStr("Bug in login")]),
     SomeDict([title |-> PyStr(""), labels |-> PyList(<<>>)]),
     SomeDict([title |-> PyStr("Bug in login"), labels |-> PyList(<<"bug">>)])}

ArgumentTexts ==
    {ObjectArgs(d) : d \in PartialDrafts \cup {full_issue}}
    \cup {MalformedArgs, ArrayArgs}

ToolNames == {"update_preview", "signal_issue_ready"}

ToolCallSeqs ==
    {<<>>}
    \cup {<<ToolCall(n, a)>> : n \in ToolNames, a \in ArgumentTexts}
    \cup {<<ToolCall("update_preview", ObjectArgs([title |-> PyStr("")])),
            ToolCall("signal_issue_ready", ObjectArgs(full_issue))>>,
          <<ToolCall("signal_issue_ready", ObjectArgs(full_issue)),
            ToolCall("update_preview", ObjectArgs([title |-> PyStr("Crash")]))>>,
          <<ToolCall("update_preview", ObjectArgs([title |-> PyStr("Crash")])),
            ToolCall("update_preview", ObjectArgs([title |-> PyStr("")]))>>,
          <<ToolCall("signal_issue_ready", ObjectArgs([title |-> PyStr("")])),
            ToolCall("signal_issue_ready", ObjectArgs(full_issue))>>,
          <<ToolCall("update_preview", MalformedArgs),
            ToolCall("signal_issue_ready", ObjectArgs(full_issue))>>}

ResponseContents ==
    {"", "Got it.", "Title: Crash",
     "Issue Type: Bug\nTitle: Crash on load\nPriority: high\nOk?"}

ReadinessOutcomes == {Raised, Returned("Yes."), Returned("no")}

ExtractOutcomes ==
    {[kind |-> "raise", dict |-> EmptyDict],
     [kind |-> "text",  dict |-> EmptyDict],
     [kind |-> "dict",  dict |-> EmptyDict],
     [kind |-> "dict",  dict |-> [title |-> PyStr(""), labels |-> PyList(<<>>)]],
     [kind |-> "dict",  dict |-> [title |-> PyStr("Crash"), body |-> PyNone]]}

FollowUpOutcomes == {Raised, Returned("Anything else?")}

(***************************************************************************)
(* State of a chat request                                                 *)
(***************************************************************************)
NoResult   == [status |-> "none"]
NoResponse == [content |-> "", tool_calls |-> <<>>]

Call(fn, choice) == [fn |-> fn, tool_choice |-> choice]

NonEmptyKeys(d) == {k \in DOMAIN d : Truthy(d[k])}

ChatInit ==
    /\ pc = "idle"
    /\ request_data = [has_message |-> FALSE, message |-> "",
                       current_preview_data |-> NoDict]
    /\ user_message = ""
    /\ is_ready = FALSE
    /\ response = NoResponse
    /\ preview_data = EmptyDict
    /\ message_content = ""
    /\ result = NoResult
    /\ calls = <<>>
    /\ turns = 0
    /\ last_preview = NoDict
    /\ held = {}

DetInit ==
    /\ det_text = ""
    /\ det_outcome = Raised
    /\ det_result = [is_ready |-> FALSE, called |-> FALSE, done |-> FALSE]

\* The turn ends without a Continue result: the caller has no preview to pass on.
EndChain ==
    /\ last_preview' = NoDict
    /\ held' = {}
    /\ turns' = 0

(***************************************************************************)
(* handle_chat_issue, up to its call of chat_issue_creation.  The caller   *)
(* either starts over with any preview, or continues the chain by passing  *)
(* the preview the previous turn returned.                                 *)
(***************************************************************************)
\* user_message = request_data.get('message', '').strip()
stripped_messageUnstripped(request) ==
    IF request.has_message THEN request.message ELSE ""

stripped_message(request) ==
    strip(IF request.has_message THEN request.message ELSE "")

HandleChatIssue ==
    /\ pc \in {"idle", "done"}
    /\ \E has \in BOOLEAN, msg \in RequestMessages, chained \in BOOLEAN,
          cpd \in FreshPreviews \cup {last_preview} :
         LET stripped == stripped_message([has_message |-> has,
                                           message |-> msg]) IN
         /\ has = FALSE => msg = ""
         /\ chained => (~last_preview.none /\ cpd = last_preview
                        /\ turns < MaxTurns)
         /\ ~chained => cpd \in FreshPreviews
         /\ request_data' = [has_message |-> has, message |-> msg,
                             current_preview_data |-> cpd]
         /\ user_message' = stripped
         /\ is_ready' = FALSE
         /\ response' = NoResponse
         /\ preview_data' = EmptyDict
         /\ message_content' = ""
         /\ calls' = <<>>
         /\ IF stripped = ""
            THEN /\ result' = [status |-> "error",
                               message |-> "Please provide a message."]
                 /\ pc' = "done"
                 /\ EndChain
            ELSE /\ result' = NoResult
                 /\ pc' = "detect"
                 /\ turns' = IF chained THEN turns + 1 ELSE 1
                 /\ last_preview' = IF chained THEN last_preview ELSE NoDict
                 /\ held' = IF chained THEN held ELSE {}
    /\ UNCHANGED nonChatVars

\* is_ready = llm_detect_readiness(user_message, api_key)
DetectReadiness ==
    /\ pc = "detect"
    /\ \E outcome \in ReadinessOutcomes :
         LET r == llm_detect_readiness(user_message, outcome) IN
         /\ is_ready' = r.is_ready
         /\ calls' = IF r.called THEN Append(calls, Call("readiness", ""))
                     ELSE calls
    /\ pc' = "call_tools"
    /\ UNCHANGED <<request_data, user_message, response, preview_data,
                   message_content, result, turns, last_preview, held>>
    /\ UNCHANGED nonChatVars

\* The tool-enabled call issued again after it returned
CallWithToolsTwice ==
    /\ pc = "call_tools"
    /\ calls' = Append(Append(calls, Call("tools", tool_choice_param(is_ready))),
                       Call("tools", tool_choice_param(is_ready)))
    /\ \/ /\ result' = [status |-> "raised", exc |-> "APIError"]
          /\ pc' = "done"
          /\ response' = response
          /\ EndChain
       \/ /\ \E content \in ResponseContents, tcs \in ToolCallSeqs :
               response' = [content |-> content, tool_calls |-> tcs]
          /\ pc' = "tool_handling"
          /\ UNCHANGED <<result, last_preview, held, turns>>
    /\ UNCHANGED <<request_data, user_message, is_ready, preview_data,
                   message_content>>
    /\ UNCHANGED nonChatVars

\* response = _call_openai_chat_with_tools(..., is_ready=is_ready)
CallWithTools ==
    /\ pc = "call_tools"
    /\ calls' = Append(calls, Call("tools", tool_choice_param(is_ready)))
    /\ \/ /\ result' = [status |-> "raised", exc |-> "APIError"]
          /\ pc' = "done"
          /\ response' = response
          /\ EndChain
       \/ /\ \E content \in ResponseContents, tcs \in ToolCallSeqs :
               response' = [content |-> content, tool_calls |-> tcs]
          /\ pc' = "tool_handling"
          /\ UNCHANGED <<result, last_preview, held, turns>>
    /\ UNCHANGED <<request_data, user_message, is_ready, preview_data,
                   message_content>>
    /\ UNCHANGED nonChatVars

\* preview_data = current_preview_data.copy() if current_preview_data else {}
InitialPreviewDiscarded(cpd) == EmptyDict

InitialPreview(cpd) ==
    IF cpd.none \/ DOMAIN cpd.map = {} THEN EmptyDict ELSE cpd.map

\* Lines 259-287: initial preview and the loop over the tool calls
ToolHandling ==
    /\ pc = "tool_handling"
    /\ LET h == tool_handling(response.tool_calls,
                              InitialPreview(request_data.current_preview_data))
       IN  \/ /\ h.kind = "return"
              /\ result' = [status |-> "ready", issue_data |-> h.issue_data]
              /\ pc' = "done"
              /\ preview_data' = preview_data
              /\ EndChain
           \/ /\ h.kind = "raise"
              /\ result' = [status |-> "raised", exc |-> h.exc]
              /\ pc' = "done"
              /\ preview_data' = preview_data
              /\ EndChain
           \/ /\ h.kind = "fallthrough"
              /\ preview_data' = h.preview
              /\ pc' = "preview_fallback"
              /\ UNCHANGED <<result, last_preview, held, turns>>
    /\ UNCHANGED <<request_data, user_message, is_ready, response,
                   message_content, calls>>
    /\ UNCHANGED nonChatVars

\* preview_data = extracted or {"title": "", ..., "priority": None}
fallback_previewNoDefault(extracted) == extracted.map

fallback_preview(extracted) ==
    IF ~extracted.none /\ DOMAIN extracted.map # {}
    THEN extracted.map
    ELSE empty_shaped_draft

\* Lines 289-298: PREVIEW FALLBACK (ONLY IF NOT READY)
PreviewFallback ==
    /\ pc = "preview_fallback"
    /\ \/ /\ DOMAIN preview_data = {} /\ ~is_ready
          /\ \E outcome \in ExtractOutcomes :
               preview_data' = fallback_preview(
                   extract_issue_details_from_conversation(outcome))
          /\ calls' = Append(calls, Call("extract", ""))
       \/ /\ ~(DOMAIN preview_data = {} /\ ~is_ready)
          /\ UNCHANGED <<preview_data, calls>>
    /\ pc' = "content"
    /\ UNCHANGED <<request_data, user_message, is_ready, response,
                   message_content, result, turns, last_preview, held>>
    /\ UNCHANGED nonChatVars

\* The fallback substituted only for None, an empty sanitized text kept
ConversationalContentNoneOnly ==
    /\ pc = "content"
    /\ LET content == strip(response.content)
           sanitized == sanitize_chat_message(content, preview_data)
       IN  message_content' =
               IF content = "" THEN ""
               ELSE IF ~sanitized.none
                    THEN sanitized.text
                    ELSE get_conversational_fallback(preview_data)
    /\ pc' = "follow_up"
    /\ UNCHANGED <<request_data, user_message, is_ready, response,
                   preview_data, result, calls, turns, last_preview, held>>
    /\ UNCHANGED nonChatVars

\* Lines 300-308: CONVERSATIONAL CONTENT
ConversationalContent ==
    /\ pc = "content"
    /\ LET content == strip(response.content)
           sanitized == sanitize_chat_message(content, preview_data)
       IN  message_content' =
               IF content = "" THEN ""
               ELSE IF ~sanitized.none /\ sanitized.text # ""
                    THEN sanitized.text
                    ELSE get_conversational_fallback(preview_data)
    /\ pc' = "follow_up"
    /\ UNCHANGED <<request_data, user_message, is_ready, response,
                   preview_data, result, calls, turns, last_preview, held>>
    /\ UNCHANGED nonChatVars

\* Lines 310-335: the follow-up call (not when ready) and the final return
FollowUpAndReturn ==
    /\ pc = "follow_up"
    /\ \/ /\ message_content = "" /\ ~is_ready
          /\ \E outcome \in FollowUpOutcomes :
               message_content' =
                   IF outcome.ok THEN outcome.content
                   ELSE "Let me know if you'd like to adjust anything."
          /\ calls' = Append(calls, Call("follow_up", ""))
       \/ /\ ~(message_content = "" /\ ~is_ready)
          /\ UNCHANGED <<message_content, calls>>
    /\ result' = [status |-> "continue", message |-> message_content',
                  preview_data |-> preview_data,
                  tool_calls |-> response.tool_calls]
    /\ pc' = "done"
    /\ last_preview' = SomeDict(preview_data)
    /\ held' = held \cup NonEmptyKeys(preview_data)
    /\ UNCHANGED <<request_data, user_message, is_ready, response,
                   preview_data, turns>>
    /\ UNCHANGED nonChatVars

(***************************************************************************)
(* llm_detect_readiness called on its own, on any text                     *)
(***************************************************************************)
DetectTexts ==
    {"", " ", "\n\t ", "hello", "Looks Good to me", "LET'S CREATE it",
     "im ready", "I am READY", "please remake it", "nothing to add",
     "Create the Ticket", "make  the ticket", "that's enough", "ok go",
     "generate the issue now", "  good enough  ", "recreate", "maker",
     "lets  create", "yes"}

DetectOutcomes ==
    {Raised, Returned("yes"), Returned("Yes, create it."), Returned(" YES\n"),
     Returned("no"), Returned("No - yes later"), Returned(""), Returned("ye")}

DetectCall ==
    /\ ~det_result.done
    /\ \E text \in DetectTexts, outcome \in DetectOutcomes :
         LET r == llm_detect_readiness(text, outcome) IN
         /\ det_text' = text
         /\ det_outcome' = outcome
         /\ det_result' = [is_ready |-> r.is_ready, called |-> r.called,
                           done |-> TRUE]
    /\ UNCHANGED nonDetVars

(***************************************************************************)
(* The summarize route: handle_summarize over the cache file of            *)
(* utils/cache.py.  The steps of one activation are separated where it     *)
(* reads and where it writes the file.  The file's contents are a mapping, *)
(* a missing file being the empty one (load_cache).                        *)
(***************************************************************************)
Handlers == {1, 2}

AlphaNumText ==
    "abcdefghijklmnopqrstuvwxyzABCDEFGHIJKLMNOPQRSTUVWXYZ0123456789"

AlphaNum == {CharAt(AlphaNumText, i) : i \in 1..Len(AlphaNumText)}

\* where the name that starts after the @ at offset at ends:
\* [a-zA-Z0-9](?:[a-zA-Z0-9]|-(?=[a-zA-Z0-9])){0,38}
MentionEnd(s, at) ==
    LET limit == IF Len(s) < at + 39 THEN Len(s) ELSE at + 39
        stops == {j \in (at + 2)..limit :
                     ~ \/ CharAt(s, j) \in AlphaNum
                       \/ /\ CharAt(s, j) = "-"
                          /\ j < Len(s)
                          /\ CharAt(s, j + 1) \in AlphaNum}
    IN  IF stops = {} THEN limit ELSE MinOf(stops) - 1

\* extract_mentioned_users on a text: the names in order of first appearance
extract_mentioned_users(text) ==
    LET starts == {i \in 1..(Len(text) - 1) :
                      CharAt(text, i) = "@" /\ CharAt(text, i + 1) \in AlphaNum}
        name(i) == SubSeq(text, i + 1, MentionEnd(text, i))
        firsts == {i \in starts : \A j \in starts : j < i => name(j) # name(i)}
    IN  [k \in 1..Cardinality(firsts) |->
            name(CHOOSE i \in firsts :
                    Cardinality({j \in firsts : j < i}) = k - 1)]

\* get_summary: the model's answer, or the degraded summary when the call
\* raises; the degraded one is shaped after is_pr alone
get_summary(files, is_pr, outcome) ==
    IF outcome.ok
    THEN [summary |-> outcome.content, issue_type |-> "", code_updates |-> "",
          shape |-> IF is_pr /\ files # <<>> THEN "pr" ELSE "issue"]
    ELSE IF is_pr
         THEN [summary |-> "Summary unavailable: timeout", issue_type |-> "",
               code_updates |-> "", shape |-> "pr"]
         ELSE [summary |-> "Summary unavailable: timeout",
               issue_type |-> "unknown", code_updates |-> "", shape |-> "issue"]

\* if issue_id and issue_id in cache
CacheHitNever(cache, issue_id) == FALSE

CacheHit(cache, issue_id) == issue_id # "" /\ issue_id \in DOMAIN cache

NoSummary == [summary |-> "", issue_type |-> "", code_updates |-> "",
              shape |-> "none"]

NoSummaryResponse ==
    [summary |-> NoSummary, files |-> <<>>, mentioned_users |-> <<>>]

EmptyCache == [k \in {} |-> NoSummaryResponse]

\* Requests: id is str(request_data.get('id', '')); body is a text, null,
\* or a JSON array, on which re.findall raises
SummarizeRequest(id, body, is_pr, pr_url, repo) ==
    [id |-> id, body |-> body, is_pr |-> is_pr, pr_url |-> pr_url, repo |-> repo]

SummarizeRequests ==
    {SummarizeRequest(id, b, FALSE, "", "") :
        id \in {"", "1", "2"},
        b \in {PyStr(""), PyStr("cc @bob and @al-ice, @bob-"), PyList(<<"x">>)}}
    \cup {SummarizeRequest(id, PyStr("ping @bob"), TRUE, url, "o/r") :
            id \in {"1", "2"}, url \in {"", "https://github.com/o/r/pull/7"}}

FilesOutcomes == {<<>>, <<"app.py">>}

SummaryOutcomes == {Raised, Returned("Adds a login page.")}

FreeHandler ==
    [pc |-> "free", request |-> SummarizeRequest("", PyStr(""), FALSE, "", ""),
     cache |-> EmptyCache, response |-> NoSummaryResponse, raised |-> FALSE,
     effects |-> <<>>, later |-> FALSE, outcome |-> Returned("")]

SumInit ==
    /\ cache_file = EmptyCache
    /\ summ = [h \in Handlers |-> FreeHandler]
    /\ first = EmptyCache
    /\ served = 0

Running(h) == summ[h].pc \notin {"free", "done"}

\* A server that hands every request to a thread of its own
ServerBusyThreading == FALSE

\* socketserver.TCPServer.serve_forever handles one request to its end
\* before it accepts the next
ServerBusy == \E h \in Handlers : Running(h)

\* do_POST hands the parsed body of a request to handle_summarize
AcceptSummarize(h) ==
    /\ served < MaxRequests
    /\ ~ServerBusy
    /\ ~Running(h)
    /\ \A g \in Handlers : g < h => Running(g)
    /\ \E r \in SummarizeRequests :
         summ' = [summ EXCEPT ![h] =
                     [FreeHandler EXCEPT !.pc = "start", !.request = r,
                         !.later = (r.id # "" /\ r.id \in DOMAIN first)]]
    /\ served' = served + 1
    /\ UNCHANGED <<cache_file, first>>
    /\ UNCHANGED nonSumVars

\* the first request completed for an id, and what it returned
Completed(id, response_data) ==
    IF id # "" /\ id \notin DOMAIN first THEN Put(first, id, response_data)
    ELSE first

\* Lines 11-15: cache = load_cache(); a hit returns the cached response
LoadCache(h) ==
    /\ summ[h].pc = "start"
    /\ LET issue_id == summ[h].request.id IN
       IF CacheHit(cache_file, issue_id)
       THEN /\ summ' = [summ EXCEPT ![h].pc = "done", ![h].cache = cache_file,
                                    ![h].response = cache_file[issue_id]]
            /\ first' = Completed(issue_id, cache_file[issue_id])
       ELSE /\ summ' = [summ EXCEPT ![h].pc = "compute", ![h].cache = cache_file]
            /\ first' = first
    /\ UNCHANGED <<cache_file, served>>
    /\ UNCHANGED nonSumVars

\* Lines 17-36: mentions, the files of a pull request, the summary
ComputeSummary(h) ==
    /\ summ[h].pc = "compute"
    /\ LET r == summ[h].request
           fetches == r.is_pr /\ r.pr_url # "" /\ r.repo # ""
       IN  IF Truthy(r.body) /\ r.body.kind # "str"
           THEN summ' = [summ EXCEPT ![h].pc = "done", ![h].raised = TRUE,
                             ![h].effects = Append(@, "mentions")]
           ELSE \E fetched \in FilesOutcomes, outcome \in SummaryOutcomes :
                  LET files == IF fetches THEN fetched ELSE <<>> IN
                  /\ ~fetches => fetched = <<>>
                  /\ summ' = [summ EXCEPT
                        ![h].pc = "save",
                        ![h].response =
                            [summary |-> get_summary(files, r.is_pr, outcome),
                             files |-> files,
                             mentioned_users |->
                                 IF Truthy(r.body)
                                 THEN extract_mentioned_users(r.body.str)
                                 ELSE <<>>],
                        ![h].outcome = outcome,
                        ![h].effects =
                            @ \o <<"mentions">>
                              \o (IF fetches THEN <<"github">> ELSE <<>>)
                              \o <<"model">>]
    /\ UNCHANGED <<cache_file, first, served>>
    /\ UNCHANGED nonSumVars

\* A handler that keeps a degraded summary out of the cache file
SaveCacheUnlessDegraded(h) ==
    /\ summ[h].pc = "save"
    /\ LET issue_id == summ[h].request.id IN
       IF issue_id # "" /\ summ[h].outcome.ok
       THEN /\ cache_file' = Put(summ[h].cache, issue_id, summ[h].response)
            /\ summ' = [summ EXCEPT ![h].pc = "done",
                           ![h].cache = Put(@, issue_id, summ[h].response),
                           ![h].effects = Append(@, "save")]
       ELSE /\ cache_file' = cache_file
            /\ summ' = [summ EXCEPT ![h].pc = "done"]
    /\ first' = Completed(summ[h].request.id, summ[h].response)
    /\ UNCHANGED served
    /\ UNCHANGED nonSumVars

\* Lines 38-42: cache[issue_id] = response_data; save_cache(cache); return
SaveCache(h) ==
    /\ summ[h].pc = "save"
    /\ LET issue_id == summ[h].request.id IN
       IF issue_id # ""
       THEN /\ cache_file' = Put(summ[h].cache, issue_id, summ[h].response)
            /\ summ' = [summ EXCEPT ![h].pc = "done",
                           ![h].cache = Put(@, issue_id, summ[h].response),
                           ![h].effects = Append(@, "save")]
       ELSE /\ cache_file' = cache_file
            /\ summ' = [summ EXCEPT ![h].pc = "done"]
    /\ first' = Completed(summ[h].request.id, summ[h].response)
    /\ UNCHANGED served
    /\ UNCHANGED nonSumVars

NextSummarize ==
    \E h \in Handlers :
        \/ AcceptSummarize(h)
        \/ LoadCache(h)
        \/ ComputeSummary(h)
        \/ SaveCache(h)

(***************************************************************************)
(* The create-issue-with-project route: handle_create_issue_with_project   *)
(* with create_issue and add_issue_to_project_with_fields, one step per    *)
(* request sent to GitHub.  field_values is the sequence of the field ids  *)
(* of the request; it stands for a JSON object unless fields_object is     *)
(* false, and then for a JSON array of as many elements.                   *)
(***************************************************************************)
ProjectIds == {"", "PVT_1"}

FieldValueSets == {<<>>, <<"F1">>, <<"F1", "F2">>}

RepoNames == {"o/r", ""}

\* what urlopen does for create_issue: an HTTP error, another exception, or
\* the created issue
CreateOutcomes == {"http_error", "exception", "created"}

\* ... for the issue's node id: an exception, an answer without node_id, or the id
NodeIdOutcomes == {"exception", "no_node_id", "node_id"}

\* ... for the addProjectV2ItemById mutation: GraphQL errors, an exception
\* inside execute_graphql_query, data without the item, or the item
AddOutcomes == {"errors", "exception", "no_item", "item"}

UpdateOutcomes == {"failed", "updated"}

IssueFailure(error) ==
    [success |-> FALSE, issue_url |-> "", issue_number |-> 0, error |-> error,
     has_warning |-> FALSE, project_warning |-> ""]

IssueCreated ==
    [success |-> TRUE, issue_url |-> "https://github.com/o/r/issues/7",
     issue_number |-> 7, error |-> "",
     has_warning |-> FALSE, project_warning |-> ""]

create_issue(outcome) ==
    CASE outcome = "http_error" -> IssueFailure("HTTP 422: Validation Failed")
      [] outcome = "exception"  -> IssueFailure("timed out")
      [] OTHER                  -> IssueCreated

\* a result of add_issue_to_project_with_fields: 'error' may be missing
ProjectResult(success, has_error, error) ==
    [success |-> success, has_error |-> has_error, error |-> error]

NoProjectResult == ProjectResult(TRUE, FALSE, "")

\* issue_result['project_warning'] = project_result.get('error', ...)
with_project_warningNever(issue_result, project_result) == issue_result

with_project_warning(issue_result, project_result) ==
    IF ~project_result.success
    THEN [issue_result EXCEPT
             !.has_warning = TRUE,
             !.project_warning = IF project_result.has_error
                                 THEN project_result.error
                                 ELSE "Failed to add to project"]
    ELSE issue_result

IssInit ==
    iss = [pc |-> "idle", repo |-> "", project_id |-> "",
           field_values |-> <<>>, fields_object |-> TRUE,
           issue_result |-> IssueFailure(""), project_result |-> NoProjectResult,
           calls |-> <<>>, failed |-> {}, next_field |-> 1,
           returned |-> IssueFailure("")]

\* Lines 40-56: the request and create_issue; a failed creation is returned
CreateIssue ==
    /\ iss.pc \in {"idle", "done"}
    /\ \E repo \in RepoNames, project_id \in ProjectIds,
          field_values \in FieldValueSets, fields_object \in BOOLEAN,
          outcome \in CreateOutcomes :
         LET issue_result == create_issue(outcome) IN
         iss' = [pc |-> IF ~issue_result.success THEN "done" ELSE "attach",
                 repo |-> repo, project_id |-> project_id,
                 field_values |-> field_values, fields_object |-> fields_object,
                 issue_result |-> issue_result,
                 project_result |-> NoProjectResult,
                 calls |-> <<"create_issue">>,
                 failed |-> IF issue_result.success THEN {} ELSE {"create_issue"},
                 next_field |-> 1,
                 returned |-> issue_result]
    /\ UNCHANGED nonIssVars

\* Lines 58 and 70: without a project_id the issue result is returned
ReturnWithoutProject ==
    /\ iss.pc = "attach"
    /\ iss.project_id = ""
    /\ iss' = [iss EXCEPT !.pc = "done", !.returned = iss.issue_result]
    /\ UNCHANGED nonIssVars

\* add_issue_to_project_with_fields, lines 347-363: the issue's node id
GetNodeId ==
    /\ iss.pc = "attach"
    /\ iss.project_id # ""
    /\ \E outcome \in NodeIdOutcomes :
         iss' = [iss EXCEPT
             !.calls = Append(@, "get_issue"),
             !.pc = IF outcome = "node_id" THEN "add" ELSE "return",
             !.failed = IF outcome = "node_id" THEN @ ELSE @ \cup {"get_issue"},
             !.project_result =
                 CASE outcome = "exception" ->
                          ProjectResult(FALSE, TRUE, "timed out")
                   [] outcome = "no_node_id" ->
                          ProjectResult(FALSE, TRUE, "Could not get issue node ID")
                   [] OTHER -> @]
    /\ UNCHANGED nonIssVars

\* Lines 365-388: the mutation that adds the issue to the project
AddToProject ==
    /\ iss.pc = "add"
    /\ \E outcome \in AddOutcomes :
         iss' = [iss EXCEPT
             !.calls = Append(@, "add_to_project"),
             !.pc = IF outcome = "item" THEN "fields" ELSE "return",
             !.failed = IF outcome = "item" THEN @ ELSE @ \cup {"add_to_project"},
             !.project_result =
                 CASE outcome = "errors" -> ProjectResult(FALSE, FALSE, "")
                   [] outcome = "exception" ->
                          ProjectResult(FALSE, TRUE, "timed out")
                   [] outcome = "no_item" ->
                          ProjectResult(FALSE, TRUE, "'addProjectV2ItemById'")
                   [] OTHER -> @]
    /\ UNCHANGED nonIssVars

\* Line 411: field_values.items() raises on a value that is no object
FieldValuesRaise ==
    /\ iss.pc = "fields"
    /\ ~iss.fields_object
    /\ iss' = [iss EXCEPT
           !.pc = "return",
           !.failed = @ \cup {"field_values"},
           !.project_result =
               ProjectResult(FALSE, TRUE,
                             "'list' object has no attribute 'items'")]
    /\ UNCHANGED nonIssVars

\* Lines 411-427: one pass of the loop over field_values; a failed update
\* is printed and the loop goes on
UpdateField ==
    /\ iss.pc = "fields"
    /\ iss.fields_object
    /\ iss.next_field <= Len(iss.field_values)
    /\ \E outcome \in UpdateOutcomes :
         iss' = [iss EXCEPT
             !.calls = Append(@, "update_field"),
             !.failed = IF outcome = "updated" THEN @ ELSE @ \cup {"update_field"},
             !.next_field = @ + 1]
    /\ UNCHANGED nonIssVars

\* Lines 429-432: the loop is over, success is returned
FieldsDone ==
    /\ iss.pc = "fields"
    /\ iss.fields_object
    /\ iss.next_field > Len(iss.field_values)
    /\ iss' = [iss EXCEPT !.pc = "return",
                          !.project_result = ProjectResult(TRUE, FALSE, "")]
    /\ UNCHANGED nonIssVars

\* Lines 67-70 of the handler: the warning, and the return
ReturnIssueResult ==
    /\ iss.pc = "return"
    /\ LET issue_result == with_project_warning(iss.issue_result,
                                                iss.project_result)
       IN  iss' = [iss EXCEPT !.pc = "done", !.issue_result = issue_result,
                              !.returned = issue_result]
    /\ UNCHANGED nonIssVars

NextIssue ==
    \/ CreateIssue
    \/ ReturnWithoutProject
    \/ GetNodeId
    \/ AddToProject
    \/ FieldValuesRaise
    \/ UpdateField
    \/ FieldsDone
    \/ ReturnIssueResult

(***************************************************************************)
(* The HTTP boundary: do_GET and do_POST of GitHubAssistantHandler.  A     *)
(* handler is named by its route.  The body of a POST is a JSON object, a  *)
(* JSON array, a text json.loads raises on, or comes without a             *)
(* Content-Length header.  upstream_ok says whether the GitHub requests of *)
(* the handler succeed, handler_raises whether the handler meets an        *)
(* exception it does not catch.                                            *)
(***************************************************************************)
ROUTE_MAP ==
    {"/api/config", "/api/summarize", "/api/prioritize", "/api/my-activity",
     "/api/chat-issue", "/api/create-issue", "/api/get-projects",
     "/api/get-project-fields", "/api/create-issue-with-project"}

\* ROUTE_MAP.get(path): the route itself, "" for None
get_route_handler(path) == IF path \in ROUTE_MAP THEN path ELSE ""

RequestPaths ==
    ROUTE_MAP \cup {"/api/unknown", "/api/my-activity/", "/index.html"}

RequestBodies == {"object", "array", "malformed", "no_length"}

Environments == [upstream_ok : BOOLEAN, handler_raises : BOOLEAN]

HandlerReturns(data) == [raised |-> FALSE, data |-> data, error |-> ""]
HandlerRaises(error) == [raised |-> TRUE, data |-> [kind |-> "none"],
                         error |-> error]

\* handle_my_activity: fetch_my_activity returns [] on any failure
handle_my_activity(env) ==
    HandlerReturns([kind |-> "items",
                    items |-> IF env.upstream_ok THEN <<"o/r#7">> ELSE <<>>])

\* handler(request_data): handle_get_config ignores its argument; every
\* other handler starts with request_data.get, which a JSON array lacks
call_handler(route, body, env) ==
    IF route = "/api/config"
    THEN HandlerReturns([kind |-> "config"])
    ELSE IF body # "object"
    THEN HandlerRaises("'list' object has no attribute 'get'")
    ELSE IF route = "/api/my-activity"
    THEN handle_my_activity(env)
    ELSE IF env.handler_raises
    THEN HandlerRaises("handler failed")
    ELSE HandlerReturns([kind |-> "result", route |-> route])

\* handler(): only handle_get_config has a default for request_data
call_handler_without_arguments(route, env) ==
    IF route = "/api/config"
    THEN HandlerReturns([kind |-> "config"])
    ELSE HandlerRaises("missing 1 required positional argument: 'request_data'")

\* _read_request_body
read_request_body(body) ==
    CASE body = "no_length" ->
             HandlerRaises("int() argument must be a string ... not 'NoneType'")
      [] body = "malformed" -> HandlerRaises("Expecting value")
      [] OTHER -> HandlerReturns([kind |-> "body"])

\* _send_json_response and _send_error_response: what is written
JsonResponse(data) == [status |-> 200, json |-> TRUE, data |-> data]

ErrorResponse(error_message, status_code) ==
    [status |-> status_code, json |-> TRUE,
     data |-> [success |-> FALSE, error |-> error_message]]

StaticResponse == [status |-> 200, json |-> FALSE, data |-> [kind |-> "file"]]

\* the responses written for a GET request, in order
do_GET(path, env) ==
    IF startswith(path, "/api/")
    THEN IF get_route_handler(path) # ""
         THEN LET called == call_handler_without_arguments(path, env) IN
              IF called.raised THEN <<ErrorResponse(called.error, 500)>>
              ELSE <<JsonResponse(called.data)>>
         ELSE <<ErrorResponse("Route not found: " \o path, 404)>>
    ELSE <<StaticResponse>>

\* do_POST without its try: the exception leaves the method, nothing is written
do_POSTUnguarded(path, body, env) ==
    IF get_route_handler(path) # ""
    THEN LET read == read_request_body(body)
             called == call_handler(path, body, env)
         IN  IF read.raised \/ called.raised THEN <<>>
             ELSE <<JsonResponse(called.data)>>
    ELSE <<ErrorResponse("Route not found: " \o path, 404)>>

\* the responses written for a POST request, in order
do_POST(path, body, env) ==
    IF get_route_handler(path) # ""
    THEN LET read == read_request_body(body)
             called == call_handler(path, body, env)
         IN  IF read.raised THEN <<ErrorResponse(read.error, 500)>>
             ELSE IF called.raised THEN <<ErrorResponse(called.error, 500)>>
             ELSE <<JsonResponse(called.data)>>
    ELSE <<ErrorResponse("Route not found: " \o path, 404)>>

SrvInit ==
    srv = [method |-> "none", path |-> "", body |-> "none",
           env |-> [upstream_ok |-> TRUE, handler_raises |-> FALSE],
           responses |-> <<>>]

DoGet ==
    /\ \E path \in RequestPaths, env \in Environments :
         srv' = [method |-> "GET", path |-> path, body |-> "none", env |-> env,
                 responses |-> do_GET(path, env)]
    /\ UNCHANGED nonSrvVars

DoPost ==
    /\ \E path \in RequestPaths, body \in RequestBodies, env \in Environments :
         srv' = [method |-> "POST", path |-> path, body |-> body, env |-> env,
                 responses |-> do_POST(path, body, env)]
    /\ UNCHANGED nonSrvVars

NextServer == DoGet \/ DoPost

(***************************************************************************)
(* The prioritize route: handle_prioritize and prioritize_issues.  Every   *)
(* issue of the request has an id and a title, as the route's input is     *)
(* defined.  The answer of the model is a JSON list, another JSON value,   *)
(* a text that is no JSON, no content at all, or the call raises.  The     *)
(* prompt template is read from a file before the call, outside the try.   *)
(***************************************************************************)
IssueIds == {1, 2, 3}

Issue(id) == [id |-> id, title |-> "t"]

RECURSIVE SeqsUpTo(_, _)
SeqsUpTo(S, n) ==
    IF n = 0 THEN {<<>>}
    ELSE LET shorter == SeqsUpTo(S, n - 1)
         IN  shorter \cup {Append(q, x) : q \in shorter, x \in S}

IssueLists == SeqsUpTo({Issue(id) : id \in IssueIds}, MaxIssues)

PrioritizeOutcomes ==
    {[kind |-> "raise", items |-> <<>>], [kind |-> "text", items |-> <<>>],
     [kind |-> "object", items |-> <<>>], [kind |-> "no_content", items |-> <<>>],
     [kind |-> "list", items |-> <<>>], [kind |-> "list", items |-> <<2, 1>>]}

\* [issue['id'] for issue in issues]
IdsOf(issues) == [i \in 1..Len(issues) |-> issues[i].id]

\* the issues named in the prompt: issues[:MAX_ISSUES_TO_PRIORITIZE]
issues_text(issues) == IdsOf(Prefix(issues, MAX_ISSUES_TO_PRIORITIZE))

\* The fallback built from the issues of the prompt only
prioritize_issuesOfPrompt(issues, outcome) ==
    IF outcome.kind = "list" THEN outcome.items
    ELSE issues_text(issues)

\* the try block: a list from the model is returned as it is; anything
\* else, and any exception, gives the ids of the issues
prioritize_issues(issues, outcome) ==
    IF outcome.kind = "list" THEN outcome.items
    ELSE IdsOf(issues)

PriInit ==
    pri = [done |-> FALSE, issues |-> <<>>, prompt |-> <<>>,
           outcome |-> [kind |-> "raise", items |-> <<>>],
           called |-> FALSE, raised |-> FALSE, priorities |-> <<>>]

\* handle_prioritize: {'priorities': prioritize_issues(issues)}
HandlePrioritize ==
    /\ ~pri.done
    /\ \E issues \in IssueLists, outcome \in PrioritizeOutcomes,
          prompt_found \in BOOLEAN :
         pri' = IF prompt_found
                THEN [done |-> TRUE, issues |-> issues,
                      prompt |-> issues_text(issues), outcome |-> outcome,
                      called |-> TRUE, raised |-> FALSE,
                      priorities |-> prioritize_issues(issues, outcome)]
                ELSE [done |-> TRUE, issues |-> issues,
                      prompt |-> <<>>, outcome |-> outcome,
                      called |-> FALSE, raised |-> TRUE,
                      priorities |-> <<>>]
    /\ UNCHANGED nonPriVars

NextPrioritize == HandlePrioritize

(***************************************************************************)
(* sanitize_chat_message applied to a message, and applied again to what   *)
(* it returned.                                                            *)
(***************************************************************************)
SanitizeMessages ==
    {"Got it.",
     "Issue Type: Bug\nTitle: Crash on load\n\nLet me know if this looks right!",
     "Issue Type: Bug\nTitle: Crash on load\nPriority: high\nOk?",
     "Title: Crash",
     "TitlePriority: high\n: value",
     "Issue TypeTitleLabels: x\n: v\n: w",
     "Noted.\nDescriptionPriority: p\n: d\nOk",
     "Steps:\n- open\n- click\n- crash\nok?",
     "- a\n- b\nCrash\n- c",
     "## Title\nCrash\nShall I go on?",
     "Requirements: \n\n\n\nnone yet",
     "Labels: bug\nIt crashes. What else?",
     "Sure.\n\n\n\nTitle : Crash\nDone",
     "### Description \nIt crashes.\n# other",
     "* one\n* two\n* three\n* four",
     "   ",
     "                                                   ",
     "Title: aaaaaaaaaaaaaaaaaaaaaaaaaaaaaaaaaaaaaaaaa\nk",
     "Title: aaaaaaaaaaaaaaaaaaaaaaaaaaaaaaaaaaaaaaaaaa\nk",
     "Title: aaaaaaaaaaaaaaaaaaaaaaaaaaaaaaaaaaaa\nkkkkkkkkkkk",
     "Title: aaaaaaaaaaaaaaaaaaaaaaaaaaaaaaaaaaaaa\nkkkkkkkkkkk",
     "Description: ddddddddddddddddddddddddddddddddddddddddddddddd"}

SanitizePreviews ==
    {EmptyDict,
     [title |-> PyStr("Crash")],
     [title |-> PyStr("Crash"), body |-> PyStr("It crashes.")],
     [title |-> PyStr(""), body |-> PyStr("Steps:")]}

NotSanitized == [none |-> TRUE, text |-> ""]

SanInit ==
    san = [stage |-> "start", message |-> "", preview |-> EmptyDict,
           once |-> NotSanitized, twice |-> NotSanitized]

\* sanitize_chat_message(message, preview_data)
SanitizeOnce ==
    /\ san.stage = "start"
    /\ \E message \in SanitizeMessages, preview \in SanitizePreviews :
         san' = [stage |-> "once", message |-> message, preview |-> preview,
                 once |-> sanitize_chat_message(message, preview),
                 twice |-> NotSanitized]
    /\ UNCHANGED nonSanVars

\* sanitize_chat_message(sanitized, preview_data) on a text the first call returned
SanitizeAgain ==
    /\ san.stage = "once"
    /\ ~san.once.none
    /\ san' = [san EXCEPT
           !.stage = "twice",
           !.twice = sanitize_chat_message(san.once.text, san.preview)]
    /\ UNCHANGED nonSanVars

NextSanitize == SanitizeOnce \/ SanitizeAgain

Init ==
    /\ ChatInit /\ DetInit /\ SumInit /\ IssInit
    /\ SrvInit /\ PriInit /\ SanInit

SpecSummarize == Init /\ [][NextSummarize]_vars

SpecIssue == Init /\ [][NextIssue]_vars

SpecServer == Init /\ [][NextServer]_vars

SpecPrioritize == Init /\ [][NextPrioritize]_vars

SpecSanitize == Init /\ [][NextSanitize]_vars

NextDetect == DetectCall

SpecDetect == Init /\ [][NextDetect]_vars

Next ==
    \/ HandleChatIssue
    \/ DetectReadiness
    \/ CallWithTools
    \/ ToolHandling
    \/ PreviewFallback
    \/ ConversationalContent
    \/ FollowUpAndReturn

Spec == Init /\ [][Next]_vars

(***************************************************************************)
(* Properties                                                              *)
(***************************************************************************)
\* The draft the tool loop started from, and the update_preview arguments
\* it merged, in the state right after the loop fell through.
StartDraft == InitialPreview(request_data.current_preview_data)

Updates ==
    {response.tool_calls[i].arguments.obj : i \in DOMAIN response.tool_calls}

\* C1: after the update_preview arguments are merged into the draft, every
\* key that was non-empty in the draft holds either its old value or a
\* non-empty value that an update supplied for that very key.
C1_MergeKeepsNonEmpty ==
    pc = "preview_fallback" =>
        \A k \in DOMAIN StartDraft :
            Truthy(StartDraft[k]) =>
                /\ k \in DOMAIN preview_data
                /\ \/ preview_data[k] = StartDraft[k]
                   \/ \E u \in Updates :
                        /\ k \in DOMAIN u
                        /\ Truthy(u[k])
                        /\ preview_data[k] = u[k]

\* C1 witness: an update with an empty title was merged into a draft with
\* a title, and the title is still there.
C1_Witness ==
    /\ pc = "preview_fallback"
    /\ StartDraft = [title |-> PyStr("Bug in login")]
    /\ response.tool_calls =
           <<ToolCall("update_preview",
                      ObjectArgs([title |-> PyStr(""),
                                  labels |-> PyList(<<"bug">>)]))>>
    /\ preview_data = [title |-> PyStr("Bug in login"),
                       labels |-> PyList(<<"bug">>)]

\* C2: along a chain of Continue turns in which the caller passes back the
\* preview it was given, every key that was non-empty in an earlier
\* returned preview is non-empty in the preview returned now.
C2_NonEmptyStaysNonEmpty ==
    (pc = "done" /\ result.status = "continue") =>
        \A k \in held : GetTruthy(result.preview_data, k)

\* C2 witness: the second turn of a chain got an update that tried to blank
\* the title the first turn had returned, and returned it intact.
C2_Witness ==
    /\ pc = "done"
    /\ result.status = "continue"
    /\ turns = 2
    /\ "title" \in held
    /\ \E i \in DOMAIN response.tool_calls :
         /\ response.tool_calls[i].name = "update_preview"
         /\ response.tool_calls[i].arguments = ObjectArgs([title |-> PyStr("")])

CountCalls(fn) == Cardinality({i \in DOMAIN calls : calls[i].fn = fn})

\* C3: a turn that returns Ready made exactly one tool-enabled call, no
\* extraction call and no follow-up call, and the tool-enabled call was the
\* last call of the turn.
C3_ReadyCallBudget ==
    (pc = "done" /\ result.status = "ready") =>
        /\ CountCalls("tools") = 1
        /\ CountCalls("extract") = 0
        /\ CountCalls("follow_up") = 0
        /\ calls[Len(calls)].fn = "tools"

\* C3 witness: a Ready turn whose detector went through the model.
C3_Witness ==
    /\ pc = "done"
    /\ result.status = "ready"
    /\ calls = <<Call("readiness", ""), Call("tools", "signal_issue_ready")>>

ForcedTool == IF is_ready THEN "signal_issue_ready" ELSE "update_preview"

C5_PreviewNeverEmpty ==
    (pc = "done" /\ result.status = "continue") =>
        DOMAIN result.preview_data # {}

\* C5 as amended: a Continue result always carries a preview; when the
\* detector returned false it has at least one key, and it is the
\* empty-shaped draft whenever the extraction was called and gave nothing;
\* it is the empty mapping exactly when the detector returned true and
\* neither the caller's preview nor an update supplied a key.
C5_PreviewEmptyOnlyWhenReady ==
    (pc = "done" /\ result.status = "continue") =>
        /\ "preview_data" \in DOMAIN result
        /\ ~is_ready => DOMAIN result.preview_data # {}
        /\ (DOMAIN result.preview_data = {}) <=>
               (/\ is_ready
                /\ StartDraft = EmptyDict
                /\ \A u \in Updates : u = EmptyDict)
        /\ (StartDraft = EmptyDict /\ ~is_ready
            /\ (\A u \in Updates : u = EmptyDict))
           => \/ result.preview_data = empty_shaped_draft
              \/ \E k \in DOMAIN result.preview_data :
                    Truthy(result.preview_data[k])

\* C5 witness: not ready, nothing from the caller, nothing from the model,
\* extraction failed: the empty-shaped draft is returned.
C5_Witness ==
    /\ pc = "done"
    /\ result.status = "continue"
    /\ ~is_ready
    /\ request_data.current_preview_data = SomeDict(EmptyDict)
    /\ response.tool_calls = <<>>
    /\ result.preview_data = empty_shaped_draft

\* C6 as stated: a request with a non-blank message ends in a Ready or a
\* Continue result, whatever the model calls do.
C6_NeverRaises ==
    (pc = "done" /\ user_message # "") =>
        result.status \in {"ready", "continue"}

RequestMessage ==
    IF request_data.has_message THEN request_data.message ELSE ""

\* C7: a request whose message is missing, empty or only whitespace is
\* answered with the error result and no collaborator is called.
C7_BlankMessageError ==
    (pc # "idle" /\ strip(RequestMessage) = "") =>
        /\ pc = "done"
        /\ result = [status |-> "error", message |-> "Please provide a message."]
        /\ calls = <<>>

\* C7 witness: a whitespace-only message was answered with the error.
C7_Witness ==
    /\ pc = "done"
    /\ request_data.has_message
    /\ request_data.message = "  "
    /\ result.status = "error"

IsBlank(text) == \A i \in 1..Len(text) : CharAt(text, i) \in Whitespace

HasFinalizePhrase(text) ==
    \E i \in 1..Len(ready_keywords) :
        \E a \in 1..Len(text) : \E b \in a..Len(text) :
            lower(SubSeq(text, a, b)) = ready_keywords[i]

\* C8: llm_detect_readiness returns false without a model call on a blank
\* text, true without a model call on a text containing a finalize phrase
\* in any letter case, and calls the model in exactly the other cases.
C8_FastPaths ==
    det_result.done =>
        /\ IsBlank(det_text) => (~det_result.is_ready /\ ~det_result.called)
        /\ (~IsBlank(det_text) /\ HasFinalizePhrase(det_text))
               => (det_result.is_ready /\ ~det_result.called)
        /\ det_result.called <=>
               (~IsBlank(det_text) /\ ~HasFinalizePhrase(det_text))

\* C8 witness: a phrase in capitals is detected although the model would
\* have answered no.
C8_Witness ==
    /\ det_result.done
    /\ det_text = "LET'S CREATE it"
    /\ det_outcome = Returned("no")
    /\ det_result.is_ready
    /\ ~det_result.called

\* C9: on the slow path a successful model call gives true exactly when
\* the trimmed, lower-cased answer begins with "yes"; a failed one gives
\* true exactly when the lower-cased text contains "ready", "create" or
\* "make"; the function returns in both cases.
C9_SlowPath ==
    (det_result.done /\ ~IsBlank(det_text) /\ ~HasFinalizePhrase(det_text)) =>
        /\ det_outcome.ok =>
              (det_result.is_ready <=>
                   startswith(lower(strip(det_outcome.content)), "yes"))
        /\ ~det_outcome.ok =>
              (det_result.is_ready <=>
                   \/ Contains(lower(det_text), "ready")
                   \/ Contains(lower(det_text), "create")
                   \/ Contains(lower(det_text), "make"))

\* C9 witness: the model call failed and the text contains "make".
C9_Witness ==
    /\ det_result.done
    /\ det_text = "please remake it"
    /\ det_outcome = Raised
    /\ det_result.called
    /\ det_result.is_ready

RequiredOfSignal == {"issue_type", "title", "body", "labels"}

\* C10 as stated: the issue_data of every Ready result has all the fields
\* signal_issue_ready requires.
C10_ReadyHasRequiredFields ==
    (pc = "done" /\ result.status = "ready") =>
        /\ result.issue_data.json = "object"
        /\ RequiredOfSignal \subseteq DOMAIN result.issue_data.obj

HasSignal ==
    \E i \in DOMAIN response.tool_calls :
        response.tool_calls[i].name = "signal_issue_ready"

FirstSignal ==
    response.tool_calls[
        MinOf({i \in DOMAIN response.tool_calls :
                  response.tool_calls[i].name = "signal_issue_ready"})]

\* C18 as stated: when the model's tool invocations contain
\* signal_issue_ready, the turn returns Ready and its issue_data is the
\* arguments of the first signal_issue_ready invocation, whatever
\* update_preview invocations surround it and whatever preview the caller sent.
C18_FirstSignalWins ==
    (pc = "done" /\ HasSignal) =>
        /\ result.status = "ready"
        /\ result.issue_data = FirstSignal.arguments

\* C19: after one update_preview invocation is merged, the draft has the
\* keys of the old draft and of the update; a key of the update holds the
\* incoming value when that value is truthy or the key was absent, and the
\* old value otherwise; every other key holds its old value.  Merging
\* {title: "", labels: ["bug"]} into {title: "Bug in login"} gives
\* {title: "Bug in login", labels: ["bug"]}.
C19_MergeRule ==
    (/\ pc = "preview_fallback"
     /\ Len(response.tool_calls) = 1
     /\ response.tool_calls[1].name = "update_preview"
     /\ response.tool_calls[1].arguments.json = "object") =>
        LET u == response.tool_calls[1].arguments.obj IN
        /\ DOMAIN preview_data = DOMAIN StartDraft \cup DOMAIN u
        /\ \A k \in DOMAIN preview_data :
             preview_data[k] =
                 IF k \in DOMAIN u /\ (Truthy(u[k]) \/ k \notin DOMAIN StartDraft)
                 THEN u[k] ELSE StartDraft[k]
        /\ (/\ StartDraft = [title |-> PyStr("Bug in login")]
            /\ u = [title |-> PyStr(""), labels |-> PyList(<<"bug">>)])
           => preview_data = [title |-> PyStr("Bug in login"),
                              labels |-> PyList(<<"bug">>)]

\* C19 witness: one update replaced the title by a non-empty one and left
\* the labels alone because its labels were empty.
C19_Witness ==
    /\ pc = "preview_fallback"
    /\ StartDraft = [title |-> PyStr("Bug in login"),
                     labels |-> PyList(<<"bug">>)]
    /\ response.tool_calls =
           <<ToolCall("update_preview",
                      ObjectArgs([title |-> PyStr("Crash"),
                                  labels |-> PyList(<<>>)]))>>
    /\ preview_data = [title |-> PyStr("Crash"), labels |-> PyList(<<"bug">>)]

\* The model's text as the turn saw it, and what the sanitizer made of it
Content == strip(response.content)

Sanitized == sanitize_chat_message(Content, preview_data)

FollowUpMessages ==
    {"Anything else?", "Let me know if you'd like to adjust anything."}

\* C20 as stated: on a Continue turn whose detector returned false, a
\* non-empty model text that the sanitizer turns into a present but empty
\* text leads to the one follow-up call, whose answer (or the fixed
\* adjust-anything string) is the message; the fallback message is used only
\* when the sanitizer reports absent.
C20_EmptySanitizedFollowsUp ==
    (/\ pc = "done"
     /\ result.status = "continue"
     /\ Content # "") =>
        /\ (~Sanitized.none /\ Sanitized.text = "" /\ ~is_ready)
               => /\ CountCalls("follow_up") = 1
                  /\ result.message \in FollowUpMessages
        /\ Sanitized.none
               => result.message = get_conversational_fallback(preview_data)

\* C20 as amended: on a Continue turn a non-empty model text is replaced by
\* the fallback message when the sanitizer reports absent or returns an
\* empty text, and by the sanitized text otherwise, with no follow-up call in
\* either case; the follow-up call is made exactly when the model's text
\* itself was empty and the detector returned false, and its answer, or the
\* fixed adjust-anything string, is then the message.
C20_FallbackWhenAbsentOrEmpty ==
    (pc = "done" /\ result.status = "continue") =>
        /\ (Content # "" /\ (Sanitized.none \/ Sanitized.text = ""))
               => /\ result.message = get_conversational_fallback(preview_data)
                  /\ CountCalls("follow_up") = 0
        /\ (Content # "" /\ ~Sanitized.none /\ Sanitized.text # "")
               => /\ result.message = Sanitized.text
                  /\ CountCalls("follow_up") = 0
        /\ (Content = "" /\ ~is_ready)
               => /\ CountCalls("follow_up") = 1
                  /\ result.message \in FollowUpMessages
        /\ (Content = "" /\ is_ready)
               => /\ CountCalls("follow_up") = 0
                  /\ result.message = ""

\* C20 witness: the detector returned false, the sanitizer emptied the
\* model's text without reporting absent, and the turn answered with the
\* fallback message without a follow-up call.
C20_Witness ==
    /\ pc = "done"
    /\ result.status = "continue"
    /\ ~is_ready
    /\ response.content = "Title: Crash"
    /\ Sanitized = [none |-> FALSE, text |-> ""]
    /\ result.message = get_conversational_fallback(preview_data)
    /\ CountCalls("follow_up") = 0

\* C11: once a summarize request with a non-empty id has completed, the
\* cache file keeps the response of that first request under the id, and
\* every request for the id taken up later returns that response without
\* raising and without mention extraction, GitHub call, model call or write
\* of the cache file.
C11_CachedResponseStable ==
    /\ \A id \in DOMAIN first :
         id \in DOMAIN cache_file /\ cache_file[id] = first[id]
    /\ \A h \in Handlers :
         (summ[h].pc = "done" /\ summ[h].later) =>
             /\ ~summ[h].raised
             /\ summ[h].response = first[summ[h].request.id]
             /\ summ[h].effects = <<>>

\* C11 witness: after requests for ids "1" and "2" were cached, a request
\* for a cached id whose body would make mention extraction raise got the
\* response computed for the first request.
C11_Witness ==
    \E h \in Handlers :
        /\ summ[h].pc = "done"
        /\ summ[h].later
        /\ summ[h].request.body = PyList(<<"x">>)
        /\ summ[h].response.mentioned_users = <<"bob", "al-ice">>
        /\ summ[h].effects = <<>>
        /\ DOMAIN cache_file = {"1", "2"}

\* C12 as stated: requests are handled concurrently, that is, while one
\* summarize request is between its load and its save of the cache file the
\* server can take up another one (whose load and save then interleave with
\* the first's and lose an update).
C12_RequestsInterleave ==
    \A h \in Handlers :
        (summ[h].pc \in {"compute", "save"} /\ served < MaxRequests) =>
            ENABLED (\E g \in Handlers : AcceptSummarize(g))

\* C12 as amended: the cache file is loaded and saved without a lock, but
\* at most one request is being handled at any time, and whenever none is,
\* the file holds an entry for every non-empty id a request has completed
\* for: no update is lost.
C12_SerialNoLostUpdate ==
    /\ Cardinality({h \in Handlers : Running(h)}) <= 1
    /\ ~ServerBusy => DOMAIN first \subseteq DOMAIN cache_file

\* C12 witness: two requests for different uncached ids have both computed
\* and saved, and the file holds both entries.
C12_Witness ==
    /\ ~ServerBusy
    /\ served = 2
    /\ DOMAIN first = {"1", "2"}
    /\ DOMAIN cache_file = {"1", "2"}

AttachCalls == {"get_issue", "add_to_project", "update_field"}

CallsOfIssue == {iss.calls[i] : i \in DOMAIN iss.calls}

\* C13 as stated: the issue is created first; a failed creation is returned
\* with no project call; when the creation succeeded and any step of the
\* attachment failed, the result is still successful, has the issue's url
\* and number, and carries project_warning; the attachment is attempted
\* only with a non-empty project_id.
C13_AnyAttachFailureWarns ==
    iss.pc = "done" =>
        /\ iss.calls[1] = "create_issue"
        /\ "create_issue" \in iss.failed =>
               /\ ~iss.returned.success
               /\ iss.calls = <<"create_issue">>
        /\ ("create_issue" \notin iss.failed /\ iss.failed # {}) =>
               /\ iss.returned.success
               /\ iss.returned.issue_url = IssueCreated.issue_url
               /\ iss.returned.issue_number = IssueCreated.issue_number
               /\ iss.returned.has_warning
        /\ CallsOfIssue \cap AttachCalls # {} => iss.project_id # ""

\* C13 as amended: as above, except that project_warning is carried exactly
\* when the attachment itself failed (the node id, the add mutation, or
\* field_values not being an object); a failed update of a field value is
\* only logged, the remaining fields are still updated and the result
\* carries no project_warning for it.
C13_AttachFailureWarns ==
    iss.pc = "done" =>
        /\ iss.calls[1] = "create_issue"
        /\ "create_issue" \in iss.failed =>
               /\ ~iss.returned.success
               /\ iss.calls = <<"create_issue">>
        /\ "create_issue" \notin iss.failed =>
               /\ iss.returned.success
               /\ iss.returned.issue_url = IssueCreated.issue_url
               /\ iss.returned.issue_number = IssueCreated.issue_number
               /\ iss.returned.has_warning <=>
                      iss.failed \ {"update_field"} # {}
               /\ iss.returned.has_warning => iss.returned.project_warning # ""
        /\ (CallsOfIssue \cap AttachCalls # {}) <=>
               (iss.project_id # "" /\ "create_issue" \notin iss.failed)
        /\ (iss.failed \subseteq {"update_field"} /\ iss.project_id # "")
               => Len(iss.calls) = 3 + Len(iss.field_values)

\* C13 witness: the issue was created, adding it to the project failed
\* with GraphQL errors, and the successful result carries the default warning.
C13_Witness ==
    /\ iss.pc = "done"
    /\ iss.calls = <<"create_issue", "get_issue", "add_to_project">>
    /\ iss.failed = {"add_to_project"}
    /\ iss.returned.success
    /\ iss.returned.project_warning = "Failed to add to project"

ApiRequest == srv.method # "none" /\ startswith(srv.path, "/api/")

\* what the handler of the request did: handler() for GET, and for POST
\* the reading of the body followed by handler(request_data)
HandlerOutcome ==
    IF srv.method = "GET"
    THEN call_handler_without_arguments(srv.path, srv.env)
    ELSE IF read_request_body(srv.body).raised
         THEN read_request_body(srv.body)
         ELSE call_handler(srv.path, srv.body, srv.env)

C15_ActivityServedForGet ==
    (/\ srv.path = "/api/my-activity"
     /\ \/ srv.method = "GET"
        \/ srv.method = "POST" /\ srv.body = "object") =>
        /\ Len(srv.responses) = 1
        /\ srv.responses[1].status = 200
        /\ srv.responses[1].data.kind = "items"
        /\ ~srv.env.upstream_ok => srv.responses[1].data.items = <<>>

\* C16: when the model call of prioritize_issues raises, or its answer is
\* not a list, the function returns, and what it returns is the ids of all
\* issues of the request in the order of the request.
C16_FallbackKeepsInputOrder ==
    (pri.done /\ pri.called /\ pri.outcome.kind # "list") =>
        /\ ~pri.raised
        /\ Len(pri.priorities) = Len(pri.issues)
        /\ \A i \in 1..Len(pri.issues) : pri.priorities[i] = pri.issues[i].id

\* C16 witness: three issues, more than the prompt takes, and a model call
\* that raised: all three ids come back in the order of the request.
C16_Witness ==
    /\ pri.done
    /\ pri.outcome.kind = "raise"
    /\ pri.issues = <<Issue(3), Issue(1), Issue(2)>>
    /\ pri.prompt = <<3, 1>>
    /\ pri.priorities = <<3, 1, 2>>

\* re.search(pattern, s) finds a match
HasMatch(pattern, s) == \E p \in 0..Len(s) : Ends(pattern, s, p) # <<>>

HasStructuredMatch(s) ==
    \/ \E i \in 1..Len(structured_fields) : HasMatch(structured_fields[i], s)
    \/ HasMatch(field_heading, s)
    \/ HasMatch(bullet_section, s)

\* C17 as stated: when sanitize_chat_message returns a text and is applied
\* to that text with the same preview, the text it then returns has no
\* match of a "Label: value" pattern, of a field-name heading, or of a run
\* of three or more list lines.
C17_TwiceLeavesNoMatch ==
    (san.stage = "twice" /\ ~san.twice.none) =>
        ~HasStructuredMatch(san.twice.text)

(***************************************************************************)
(* The sanitizer's decision between a text and None                        *)
(***************************************************************************)
OriginalLength == Len(san.message)

CleanedText == cleaned_message(san.message, san.preview)

CleanedLength == Len(CleanedText)

MostlyLeakage == 5 * CleanedLength < OriginalLength /\ OriginalLength > 50

\* C21 as stated: for every message, sanitize_chat_message returns None
\* exactly when 5*L1 < L0 and L0 > 50, L0 the length of the message and L1
\* the length of the cleaned, trimmed text, and returns the cleaned text in
\* every other case.
C21_DecisionRule ==
    san.stage # "start" =>
        /\ san.once.none <=> MostlyLeakage
        /\ ~san.once.none => san.once.text = CleanedText

\* C21 amended: a message that is empty or only whitespace is returned as it
\* is, whatever its length; for every other message sanitize_chat_message
\* returns None exactly when 5*L1 < L0 and L0 > 50 and the cleaned, trimmed
\* text (possibly empty) otherwise; a message of at most 50 characters never
\* gives None.
C21_DecisionRuleUnlessBlank ==
    san.stage # "start" =>
        /\ IF strip(san.message) = ""
           THEN san.once = [none |-> FALSE, text |-> san.message]
           ELSE /\ san.once.none <=> MostlyLeakage
                /\ ~san.once.none => san.once.text = CleanedText
        /\ OriginalLength <= 50 => ~san.once.none

\* a message of 51 characters, not blank, cleaned down to one character,
\* has been answered with None
C21_Witness ==
    /\ san.stage = "once"
    /\ strip(san.message) # ""
    /\ OriginalLength = 51
    /\ CleanedLength = 1
    /\ san.once.none

(***************************************************************************)
(* Degraded summaries and the cache                                        *)
(***************************************************************************)
\* the response carries get_summary's "Summary unavailable: ..." summary
Degraded(response_data) ==
    startswith(response_data.summary.summary, "Summary unavailable")

\* the request of handler h reached the model and the call raised
ModelFailed(h) ==
    /\ summ[h].pc \in {"save", "done"}
    /\ ~summ[h].raised
    /\ "model" \in {summ[h].effects[i] : i \in DOMAIN summ[h].effects}
    /\ ~summ[h].outcome.ok

\* C22: when the model call failed during a summarize request with a
\* non-empty id, the completed request returned the "Summary unavailable"
\* response and the cache file holds it under the id; the file keeps a
\* degraded first response for good, and every later request for that id
\* returns it without a model call (or any other call), whatever the model
\* would answer now.
C22_DegradedSummaryCached ==
    /\ \A h \in Handlers :
         (ModelFailed(h) /\ summ[h].pc = "done" /\ summ[h].request.id # "") =>
             /\ Degraded(summ[h].response)
             /\ summ[h].request.id \in DOMAIN cache_file
             /\ cache_file[summ[h].request.id] = summ[h].response
    /\ \A id \in DOMAIN first :
         Degraded(first[id]) =>
             id \in DOMAIN cache_file /\ cache_file[id] = first[id]
    /\ \A h \in Handlers :
         ( /\ summ[h].pc = "done"
           /\ summ[h].later
           /\ Degraded(first[summ[h].request.id]) ) =>
             /\ summ[h].response = first[summ[h].request.id]
             /\ summ[h].effects = <<>>
             /\ ~summ[h].raised

\* C22 witness: the third request served is for an id whose first request
\* lost its model call, and it has returned the degraded pull-request
\* summary from the cache without any call.
C22_Witness ==
    \E h \in Handlers :
        /\ served = 3
        /\ summ[h].pc = "done"
        /\ summ[h].later
        /\ Degraded(summ[h].response)
        /\ summ[h].response.summary.shape = "pr"
        /\ summ[h].effects = <<>>
        /\ cache_file[summ[h].request.id] = summ[h].response

====
